---- MODULE Spec2Model ----
(***************************************************************************)
(* ShelfSense synthetic telemetry: the simulation API route                *)
(* (src/src/app/api/simulation/route.ts) and the multi-camera stream       *)
(* scheduler described in spec.md section 4.5.                             *)
(*                                                                         *)
(* Number representation.  Math.random() returns k / RandDen for a         *)
(* numerator k in 0 .. RandDen-1.  Every real-valued quantity is kept as   *)
(* an exact integer numerator:                                             *)
(*   confidence      in units of 1 / (100 * RandDen)                       *)
(*   overall_score   in units of 1 / ScoreDen     (ScoreDen = 20, the      *)
(*                   divisor of numProducts in route.ts line 51)           *)
(*   prices, values  in cents                                              *)
(*   efficiency      in units of 1 / EffScale of a percent, truncated      *)
(* Timestamps (Date.now(), new Date()) take no part in any computation of  *)
(* the route and are left out of the records.                              *)
(***************************************************************************)
EXTENDS Integers, Sequences, FiniteSets, TLC

VARIABLES
  request,      \* the query parameters of the request being handled, or Absent
  response,     \* the response produced for it, or Absent
  catalog,      \* the module-level PRODUCTS array
  phase,        \* stream run: "idle", "rejected", "running"
  config,       \* the configuration simulate was called with
  cancelled,    \* the shared cancellation flag
  cancelTime,   \* the clock when cancelFn returned
  emittedAtCancel, \* per camera: its emitted count when cancelFn returned
  now,          \* the clock, in frame intervals since the run started
  camPc,        \* per camera: "wait", "emit", "stopped"
  camNext,      \* per camera: the clock of its next frame tick
  queue,        \* per camera: its bounded event queue
  emitted,      \* per camera: events pushed to its queue
  dropped,      \* per camera: events dropped from its full queue
  consumed,     \* per camera: events the aggregator took from its queue
  delivered,    \* per camera: events the registered sink received
  sinkFailed,   \* per camera: events dropped because the sink threw
  tickFailed,   \* per camera: ticks abandoned because producing the event failed
  window,       \* the aggregator's sliding window
  totals,       \* the aggregator's running totals
  isRunning,    \* simulation lab: the isRunning state
  currentFrame, \* simulation lab: the frame counter
  results,      \* simulation lab: the published detection results, or Absent
  runs,         \* simulation lab: per started runSimulation call, where its loop stands
  halted,       \* simulation lab: stopSimulation was invoked and Run not pressed since
  autoRefresh,  \* dashboard: the autoRefresh state
  selectedTimeRange, \* dashboard: the selectedTimeRange state
  loading,      \* dashboard: the loading state
  analytics,    \* dashboard: the analytics shown, or Absent
  timers,       \* dashboard: per live setInterval timer, the seconds until it fires
  fetching,     \* dashboard: per fetchData call in flight, the seconds until it resolves
  sinceFetch,   \* dashboard: the seconds since fetchData was last called
  socket,       \* socket client: the module-level socket, or Absent
  created,      \* socket client: the socket instances io() has created
  lastCall,     \* socket client: the last exported function called and what it returned
  lastToken,    \* socket client: the last token passed since the last disconnectSocket
  connectCalled, \* socket client: connectSocket was called since the last disconnectSocket
  entries,      \* cache: per key, the Redis entry (serialized data, remaining time-to-live)
  lastGet,      \* cache: the last cacheGet call and what it returned
  lastSet,      \* cache: how the last cacheSet call ended
  promised      \* cache: per key, the value and time-to-live its last cacheSet named

apiVars == <<request, response, catalog>>

streamVars ==
  <<phase, config, cancelled, cancelTime, emittedAtCancel, now, camPc, camNext,
    queue, emitted, dropped, consumed, delivered, sinkFailed, tickFailed, window, totals>>

labVars == <<isRunning, currentFrame, results, runs, halted>>

dashVars == <<autoRefresh, selectedTimeRange, loading, analytics, timers, fetching, sinceFetch>>

socketVars == <<socket, created, lastCall, lastToken, connectCalled>>

cacheVars == <<entries, lastGet, lastSet, promised>>

clientVars == <<labVars, dashVars, socketVars, cacheVars>>

vars == <<apiVars, streamVars, clientVars>>

(***************************************************************************)
(* Bounds of the random source.                                            *)
(***************************************************************************)
\* Math.random() returns k / RandDen, 0 <= k < RandDen: hundredths, so that
\* the largest draw, (RandDen - 1) / RandDen, reaches the top pixel rows of
\* lines 31-34.
RandDen == 100

\* The draws of lines 18 and 77 are taken from GridPoints evenly spaced
\* numerators.
GridPoints == 20

RandomGrid == {(j * RandDen) \div GridPoints : j \in 0 .. (GridPoints - 1)}

\* Math.floor(Math.random() * n) for the draw k / RandDen.
FloorRandomTimes(k, n) == (k * n) \div RandDen

\* Math.random() < pct / 100 for the draw k / RandDen.
RandomBelowPercent(k, pct) == k * 100 < pct * RandDen

(***************************************************************************)
(* route.ts lines 4-15: the product catalog (prices in cents).             *)
(***************************************************************************)
PRODUCTS ==
  << [id |-> "P001", name |-> "Coca Cola 2L", category |-> "Beverages", price |-> 299, brand |-> "Coca Cola"],
     [id |-> "P002", name |-> "Pepsi 2L", category |-> "Beverages", price |-> 279, brand |-> "Pepsi"],
     [id |-> "P003", name |-> "Sprite 2L", category |-> "Beverages", price |-> 289, brand |-> "Coca Cola"],
     [id |-> "P004", name |-> "Mountain Dew 2L", category |-> "Beverages", price |-> 299, brand |-> "Pepsi"],
     [id |-> "P005", name |-> "Lays Classic", category |-> "Snacks", price |-> 349, brand |-> "Lays"],
     [id |-> "P006", name |-> "Doritos Nacho", category |-> "Snacks", price |-> 379, brand |-> "Doritos"],
     [id |-> "P007", name |-> "Cheetos Puffs", category |-> "Snacks", price |-> 329, brand |-> "Cheetos"],
     [id |-> "P008", name |-> "Pringles Original", category |-> "Snacks", price |-> 299, brand |-> "Pringles"],
     [id |-> "P009", name |-> "Tide Detergent", category |-> "Household", price |-> 1299, brand |-> "Tide"],
     [id |-> "P010", name |-> "Bounty Paper Towels", category |-> "Household", price |-> 899, brand |-> "Bounty"] >>

(***************************************************************************)
(* Helpers over sequences.                                                 *)
(***************************************************************************)
\* The sum of the first n elements of s.
RECURSIVE SumFirst(_, _)
SumFirst(s, n) == IF n <= 0 THEN 0 ELSE SumFirst(s, n - 1) + s[n]

\* Array.prototype.reduce((sum, x) => sum + x, 0)
SumSeq(s) == SumFirst(s, Len(s))

Max(a, b) == IF a >= b THEN a ELSE b

(***************************************************************************)
(* route.ts line 18: numProducts = Math.floor(Math.random() * 15) + 10.    *)
(***************************************************************************)
NumProductsMutShort(k) == FloorRandomTimes(k, 15) + 9

NumProducts(k) == FloorRandomTimes(k, 15) + 10

(***************************************************************************)
(* route.ts lines 22-39: one detection, from the eight draws d of one      *)
(* loop iteration i (0-based, as in the detection_id).                     *)
(***************************************************************************)
ConfidenceMutWide(k) == 85 * RandDen + k * 15

\* line 29: 0.85 + Math.random() * 0.14, in units of 1 / (100 * RandDen).
Confidence(k) == 85 * RandDen + k * 14

Detection(shelfId, i, d) ==
  LET product == catalog[FloorRandomTimes(d.product, Len(catalog)) + 1]
  IN [ detection_id |-> <<"det", shelfId, i>>,
       product_id   |-> product.id,
       product_name |-> product.name,
       category     |-> product.category,
       brand        |-> product.brand,
       confidence   |-> Confidence(d.confidence),
       bbox         |-> [ x      |-> FloorRandomTimes(d.x, 1600) + 50,
                          y      |-> FloorRandomTimes(d.y, 800) + 50,
                          width  |-> FloorRandomTimes(d.width, 120) + 80,
                          height |-> FloorRandomTimes(d.height, 150) + 100 ],
       is_misplaced |-> RandomBelowPercent(d.misplaced, 5),
       is_low_stock |-> RandomBelowPercent(d.low_stock, 15) ]

\* lines 19-40: the loop pushes one detection per iteration i = 0 .. numProducts-1;
\* draws[i + 1] holds the draws of iteration i.
RECURSIVE LoopDetections(_, _, _)
LoopDetections(shelfId, numProducts, draws) ==
  IF numProducts <= 0 THEN << >>
  ELSE Append(LoopDetections(shelfId, numProducts - 1, draws),
              Detection(shelfId, numProducts - 1, draws[numProducts]))

(***************************************************************************)
(* route.ts lines 42-56: the reductions over the detections list.          *)
(***************************************************************************)
\* lines 42-45: PRODUCTS.find(p => p.id === d.product_id)?.price || 0
PriceOf(productId) ==
  LET hits == {j \in DOMAIN catalog : catalog[j].id = productId}
  IN IF hits = {} THEN 0
     ELSE catalog[CHOOSE j \in hits : \A h \in hits : j <= h].price

TotalValue(detections) ==
  SumSeq([i \in DOMAIN detections |-> PriceOf(detections[i].product_id)])

\* line 47: detections.filter(d => d.is_misplaced).length
MisplacedCount(detections) ==
  Cardinality({i \in DOMAIN detections : detections[i].is_misplaced})

\* line 48: detections.filter(d => d.is_low_stock).length
LowStockCount(detections) ==
  Cardinality({i \in DOMAIN detections : detections[i].is_low_stock})

AlertsMutFlagged(detections) ==
  Cardinality({i \in DOMAIN detections :
                 detections[i].is_misplaced \/ detections[i].is_low_stock})

\* line 49
Alerts(detections) == MisplacedCount(detections) + LowStockCount(detections)

\* The divisor of line 51; overall_score is kept as a numerator over it.
ScoreDen == 20

ConditionScoreMutDrawnCount(misplacedCount, lowStockCount, numProducts) ==
  Max(0, ScoreDen * 100 - ScoreDen * (misplacedCount * 10)
           - ScoreDen * (lowStockCount * 5) + NumProducts(0) * 30)

\* line 51: Math.max(0, 100 - m*10 - l*5 + (numProducts / 20) * 30)
ConditionScore(misplacedCount, lowStockCount, numProducts) ==
  Max(0, ScoreDen * 100 - ScoreDen * (misplacedCount * 10)
           - ScoreDen * (lowStockCount * 5) + numProducts * 30)

ConditionMutInclusive(conditionScore) ==
  IF conditionScore <= 50 * ScoreDen THEN "Poor"
  ELSE IF conditionScore <= 70 * ScoreDen THEN "Fair"
  ELSE IF conditionScore <= 85 * ScoreDen THEN "Good"
  ELSE "Excellent"

\* lines 53-56: the last assignment that applies wins.
Condition(conditionScore) ==
  IF conditionScore < 50 * ScoreDen THEN "Poor"
  ELSE IF conditionScore < 70 * ScoreDen THEN "Fair"
  ELSE IF conditionScore < 85 * ScoreDen THEN "Good"
  ELSE "Excellent"

UniqueProductsMutTotal(detections) == Len(detections)

\* line 66: new Set(detections.map(d => d.product_id)).size
UniqueProducts(detections) ==
  Cardinality({detections[i].product_id : i \in DOMAIN detections})

\* line 67: the mean confidence, truncated to the confidence unit.
AvgConfidence(detections) ==
  SumSeq([i \in DOMAIN detections |-> detections[i].confidence]) \div Len(detections)

(***************************************************************************)
(* route.ts lines 17-79: generateShelfSnapshot.  rnd holds the draws the   *)
(* call consumes: rnd.num for line 18, rnd.dets[i] for iteration i - 1,    *)
(* rnd.time for line 77.                                                   *)
(***************************************************************************)
generateShelfSnapshot(shelfId, storeId, rnd) ==
  LET numProducts    == NumProducts(rnd.num)
      detections     == LoopDetections(shelfId, numProducts, rnd.dets)
      totalValue     == TotalValue(detections)
      misplacedCount == MisplacedCount(detections)
      lowStockCount  == LowStockCount(detections)
      alerts         == Alerts(detections)
      conditionScore == ConditionScore(misplacedCount, lowStockCount, numProducts)
      condition      == Condition(conditionScore)
  IN [ snapshot_id |-> <<"snap", shelfId>>,
       shelf_id    |-> shelfId,
       store_id    |-> storeId,
       detections  |-> detections,
       metrics     |-> [ total_products  |-> Len(detections),
                         unique_products |-> UniqueProducts(detections),
                         avg_confidence  |-> AvgConfidence(detections),
                         total_value     |-> totalValue,
                         misplaced_count |-> misplacedCount,
                         low_stock_count |-> lowStockCount ],
       condition   |-> [ overall_score |-> conditionScore,
                         condition     |-> condition,
                         alerts        |-> alerts ],
       processing_time_ms |-> FloorRandomTimes(rnd.time, 170) + 80 ]

(***************************************************************************)
(* route.ts lines 81-116: generateStoreAnalytics.  rnds[i] holds the draws *)
(* of the i-th generateShelfSnapshot call.                                 *)
(***************************************************************************)
\* line 81: the default value of the parameter numShelves.
DefaultNumShelves == 12

\* The result of a division of zero by zero.
NaN == "NaN"

\* efficiency_score is kept in units of 1 / EffScale of a percent, truncated.
EffScale == 1000

\* shelves.filter(s => s.condition.condition === label).length
CountCondition(shelves, label) ==
  Cardinality({i \in DOMAIN shelves : shelves[i].condition.condition = label})

ShelvesGoodMutExcellent(shelves) ==
  Cardinality({i \in DOMAIN shelves :
                 shelves[i].condition.overall_score >= 85 * ScoreDen})

\* line 94: shelves.filter(s => s.condition.overall_score >= 70).length
ShelvesGood(shelves) ==
  Cardinality({i \in DOMAIN shelves :
                 shelves[i].condition.overall_score >= 70 * ScoreDen})

\* line 95: (shelvesGood / numShelves) * 100
Efficiency(shelvesGood, numShelves) ==
  IF numShelves = 0 THEN NaN
  ELSE (shelvesGood * 100 * EffScale) \div numShelves

PerformanceMutWrongLabel(shelves) ==
  [ excellent_shelves |-> CountCondition(shelves, "Excellent"),
    good_shelves      |-> CountCondition(shelves, "Good"),
    fair_shelves      |-> CountCondition(shelves, "Fair"),
    poor_shelves      |-> CountCondition(shelves, "Bad") ]

\* lines 109-114
Performance(shelves) ==
  [ excellent_shelves |-> CountCondition(shelves, "Excellent"),
    good_shelves      |-> CountCondition(shelves, "Good"),
    fair_shelves      |-> CountCondition(shelves, "Fair"),
    poor_shelves      |-> CountCondition(shelves, "Poor") ]

\* lines 82-87: the loop calls generateShelfSnapshot(`shelf_${i + 1}`, storeId)
\* for i = 0 .. numShelves-1; no iteration runs when numShelves <= 0.
RECURSIVE LoopShelves(_, _, _)
LoopShelves(storeId, numShelves, rnds) ==
  IF numShelves <= 0 THEN << >>
  ELSE Append(LoopShelves(storeId, numShelves - 1, rnds),
              generateShelfSnapshot("shelf_" \o ToString(numShelves), storeId,
                                    rnds[numShelves]))

TotalAlertsMutShelvesWithAlerts(shelves) ==
  Cardinality({i \in DOMAIN shelves : shelves[i].condition.alerts > 0})

\* line 92: shelves.reduce((sum, s) => sum + s.condition.alerts, 0)
TotalAlerts(shelves) ==
  SumSeq([i \in DOMAIN shelves |-> shelves[i].condition.alerts])

generateStoreAnalytics(storeId, numShelves, rnds) ==
  LET shelves       == LoopShelves(storeId, numShelves, rnds)
      totalProducts == SumSeq([i \in DOMAIN shelves |-> shelves[i].metrics.total_products])
      totalValue    == SumSeq([i \in DOMAIN shelves |-> shelves[i].metrics.total_value])
      avgConfidence == IF Len(shelves) = 0 THEN NaN
                       ELSE SumSeq([i \in DOMAIN shelves |-> shelves[i].metrics.avg_confidence])
                              \div Len(shelves)
      totalAlerts   == TotalAlerts(shelves)
      shelvesGood   == ShelvesGood(shelves)
      efficiency    == Efficiency(shelvesGood, numShelves)
  IN [ store_id |-> storeId,
       summary  |-> [ total_shelves    |-> numShelves,
                      total_products   |-> totalProducts,
                      total_value      |-> totalValue,
                      avg_confidence   |-> avgConfidence,
                      total_alerts     |-> totalAlerts,
                      efficiency_score |-> efficiency ],
       shelf_snapshots |-> shelves,
       performance     |-> Performance(shelves) ]

(***************************************************************************)
(* route.ts lines 118-139: the GET handler.  A query parameter is << >>    *)
(* when absent (searchParams.get gives null) and <<v>> when present.       *)
(***************************************************************************)
Absent == << >>

Truthy(param) == param # Absent /\ param[1] # ""

\* searchParams.get(name) || fallback
OrDefault(param, fallback) == IF Truthy(param) THEN param[1] ELSE fallback

\* line 120
TypeOf(params) == OrDefault(params.type, "store")

StoreIdOfMutKeepsEmpty(params) ==
  IF params.storeId = Absent THEN "store_001" ELSE params.storeId[1]

\* line 121
StoreIdOf(params) == OrDefault(params.storeId, "store_001")

IsShelfRequestMutPresent(params) ==
  TypeOf(params) = "shelf" /\ params.shelfId # Absent

\* line 125
IsShelfRequest(params) == TypeOf(params) = "shelf" /\ Truthy(params.shelfId)

IsStoreRequestMutFallsThrough(params) == ~IsShelfRequest(params)

\* line 130, reached only when line 125 did not return
IsStoreRequest(params) == ~IsShelfRequest(params) /\ TypeOf(params) = "store"

\* NextResponse.json(body) and NextResponse.json(body, { status })
Json(body, status) == [status |-> status, body |-> body]

\* rnd.shelf: the draws of the call at line 126; rnd.shelves: those of the
\* calls made by line 131.  Neither generator has a throwing path, so the
\* catch of lines 136-138 is never entered.
GETMutShelfCount(params, rnd) ==
  IF IsShelfRequest(params)
    THEN Json(generateShelfSnapshot(params.shelfId[1], StoreIdOf(params), rnd.shelf), 200)
  ELSE IF IsStoreRequest(params)
    THEN Json(generateStoreAnalytics(StoreIdOf(params),
                                     IF params.shelfCount = Absent THEN DefaultNumShelves
                                     ELSE params.shelfCount[1],
                                     rnd.shelves), 200)
  ELSE Json([error |-> "Invalid request type"], 400)

GET(params, rnd) ==
  IF IsShelfRequest(params)
    THEN Json(generateShelfSnapshot(params.shelfId[1], StoreIdOf(params), rnd.shelf), 200)
  ELSE IF IsStoreRequest(params)
    THEN Json(generateStoreAnalytics(StoreIdOf(params), DefaultNumShelves, rnd.shelves), 200)
  ELSE Json([error |-> "Invalid request type"], 400)

(***************************************************************************)
(* The bounded random source.  A detection consumes eight draws; the model *)
(* draws them together, as one of four draw vectors that between them give *)
(* every combination of the two flags and the extreme and middle values of *)
(* every other field.  A list of detections is drawn as runs of the four   *)
(* vectors, forwards or backwards: every multiset of vectors occurs for    *)
(* every list length 10..24, which no reduction of lines 42-76 tells apart *)
(* from its permutations.                                                  *)
(***************************************************************************)
DrawAll(k) ==
  [ product |-> k, confidence |-> k, x |-> k, y |-> k, width |-> k,
    height |-> k, misplaced |-> k, low_stock |-> k ]

DetectionDraws ==
  << DrawAll(0),
     [DrawAll(RandDen \div 2) EXCEPT !.misplaced = 0, !.low_stock = RandDen - 1],
     [DrawAll(RandDen \div 4) EXCEPT !.misplaced = RandDen - 1, !.low_stock = 0],
     DrawAll(RandDen - 1) >>

\* a draws of vector 1, then b of vector 2, c of vector 3, the rest vector 4.
RunDraws(n, a, b, c) ==
  [i \in 1 .. n |->
     IF i <= a THEN DetectionDraws[1]
     ELSE IF i <= a + b THEN DetectionDraws[2]
     ELSE IF i <= a + b + c THEN DetectionDraws[3]
     ELSE DetectionDraws[4]]

Reversed(s) == [i \in DOMAIN s |-> s[Len(s) + 1 - i]]

\* At most MaxFlagged detections of a list are drawn from vectors 1 to 3.
MaxFlagged == 8

RunCounts(n) ==
  {q \in (0 .. MaxFlagged) \X (0 .. MaxFlagged) \X (0 .. MaxFlagged) :
     q[1] + q[2] + q[3] <= MaxFlagged /\ q[1] + q[2] + q[3] <= n}

\* The draws of one generateShelfSnapshot call.
ShelfRandoms ==
  UNION { { [num |-> k, dets |-> RunDraws(NumProducts(k), q[1], q[2], q[3]), time |-> k]
              : q \in RunCounts(NumProducts(k)) }
          : k \in RandomGrid }

\* The shelves of a store request are drawn from four draws of a shelf, of
\* 10 detections each, with the scores 85 (Excellent), 70 (Good), 50 (Fair)
\* and 0 (Poor): the three thresholds of lines 54-56, both sides of the
\* threshold of line 94 and every bucket of lines 110-113.
StoreShelfRandoms ==
  << [num |-> 0, dets |-> RunDraws(NumProducts(0), 0, 3, 0), time |-> RandDen - 1],
     [num |-> 0, dets |-> RunDraws(NumProducts(0), 0, 4, 1), time |-> 0],
     [num |-> 0, dets |-> RunDraws(NumProducts(0), 0, 6, 1), time |-> 0],
     [num |-> 0, dets |-> RunDraws(NumProducts(0), NumProducts(0), 0, 0), time |-> 0] >>

ShelfRunCounts(n) ==
  {q \in (0 .. n) \X (0 .. n) \X (0 .. n) : q[1] + q[2] + q[3] <= n}

\* The draws of the numShelves calls of one generateStoreAnalytics call: runs
\* of the four shelf draws, every multiset of them.
StoreRandoms(numShelves) ==
  { [i \in 1 .. numShelves |->
       IF i <= q[1] THEN StoreShelfRandoms[1]
       ELSE IF i <= q[1] + q[2] THEN StoreShelfRandoms[2]
       ELSE IF i <= q[1] + q[2] + q[3] THEN StoreShelfRandoms[3]
       ELSE StoreShelfRandoms[4]]
    : q \in ShelfRunCounts(numShelves) }

NoRandoms == [shelf |-> << >>, shelves |-> << >>]

(***************************************************************************)
(* The requests the model sends.                                           *)
(***************************************************************************)
Maybe(S) == {Absent} \cup {<<v>> : v \in S}

\* Every combination of type, storeId and shelfId, each absent, empty or
\* set.  count and shelfCount are parameters the route never reads: they
\* accompany the shelf and store requests that name a store and a shelf,
\* as count = 15 with shelfCount = 3, or as shelfCount = 0 alone.
Requests ==
  { r \in [ type       : Maybe({"", "shelf", "store", "inventory"}),
            storeId    : Maybe({"", "store_1"}),
            shelfId    : Maybe({"", "shelf_1"}),
            count      : Maybe({15}),
            shelfCount : Maybe({0, 3}) ]
      : /\ (r.count # Absent) <=> (r.shelfCount = <<3>>)
        /\ r.shelfCount # Absent =>
             /\ r.type \in {<<"shelf">>, <<"store">>}
             /\ r.storeId = <<"store_1">>
             /\ r.shelfId = <<"shelf_1">> }

(***************************************************************************)
(* State: the request being handled and the response produced for it.      *)
(***************************************************************************)
InitApi ==
  /\ request = Absent
  /\ response = Absent
  /\ catalog = PRODUCTS

\* A request arrives.
Receive ==
  /\ request = Absent
  /\ \E params \in Requests : request' = <<params>>
  /\ UNCHANGED <<response, catalog, streamVars, clientVars>>

GetShelfMutSortsCatalog ==
  /\ request # Absent /\ response = Absent
  /\ IsShelfRequest(request[1])
  /\ \E r \in ShelfRandoms :
       response' = <<GET(request[1], [NoRandoms EXCEPT !.shelf = r])>>
  /\ catalog' = Reversed(catalog)
  /\ UNCHANGED <<request, streamVars, clientVars>>

\* GET, lines 125-128.
GetShelf ==
  /\ request # Absent /\ response = Absent
  /\ IsShelfRequest(request[1])
  /\ \E r \in ShelfRandoms, back \in BOOLEAN :
       response' = <<GET(request[1],
                         [NoRandoms EXCEPT !.shelf =
                            IF back THEN [r EXCEPT !.dets = Reversed(r.dets)] ELSE r])>>
  /\ UNCHANGED <<request, catalog, streamVars, clientVars>>

\* GET, lines 130-133.
GetStore ==
  /\ request # Absent /\ response = Absent
  /\ IsStoreRequest(request[1])
  /\ \E rs \in StoreRandoms(DefaultNumShelves) :
       response' = <<GET(request[1], [NoRandoms EXCEPT !.shelves = rs])>>
  /\ UNCHANGED <<request, catalog, streamVars, clientVars>>

\* GET, line 135.
GetInvalid ==
  /\ request # Absent /\ response = Absent
  /\ ~IsShelfRequest(request[1]) /\ ~IsStoreRequest(request[1])
  /\ response' = <<GET(request[1], NoRandoms)>>
  /\ UNCHANGED <<request, catalog, streamVars, clientVars>>

\* The response is sent; the handler keeps nothing.
Deliver ==
  /\ response # Absent
  /\ request' = Absent
  /\ response' = Absent
  /\ UNCHANGED <<catalog, streamVars, clientVars>>

NextApi == Receive \/ GetShelf \/ GetStore \/ GetInvalid \/ Deliver

(***************************************************************************)
(* StreamScheduler (spec.md sections 4.5 and 5).  The clock counts frame   *)
(* intervals (1 / frameRate seconds): a camera loop ticks once per unit.   *)
(* Weights are in tenths.                                                  *)
(***************************************************************************)
\* Bounds of the stream runs: the camera counts and the longest duration.
CameraCounts == {0, 1, 2}

MaxSeconds == 2

\* The capacity of a per-camera queue (1000 by default).
QueueCapacity == 1

\* The length of the sliding window in seconds (5 by default).
WindowSeconds == 1

EventTypes == <<"detection", "alert", "status">>

Cameras(cfg) == 1 .. cfg.cameraCount

\* Weights that sum to 1.0, one type never drawn, and the weights 0.5, 0.2,
\* 0.1 that sum to 0.8.
WeightChoices ==
  { [detection |-> 8, alert |-> 2, status |-> 0],
    [detection |-> 5, alert |-> 2, status |-> 1] }

Configs ==
  [ cameraCount     : CameraCounts,
    durationSeconds : {0, MaxSeconds},
    frameRate       : {0, 1},
    weights         : WeightChoices ]

ValidConfigurationMutNoWeights(cfg) ==
  /\ cfg.cameraCount > 0
  /\ cfg.durationSeconds > 0
  /\ cfg.frameRate > 0

\* simulate's validation: the weights sum to 1.0 and the three numbers are positive.
ValidConfiguration(cfg) ==
  /\ cfg.weights.detection + cfg.weights.alert + cfg.weights.status = 10
  /\ cfg.cameraCount > 0
  /\ cfg.durationSeconds > 0
  /\ cfg.frameRate > 0

\* The run's length and the window's length in frame intervals.
DurationFrames(cfg) == cfg.durationSeconds * cfg.frameRate

WindowFrames(cfg) == WindowSeconds * cfg.frameRate

NoConfig == [cameraCount |-> 0, durationSeconds |-> 0, frameRate |-> 0,
             weights |-> [detection |-> 0, alert |-> 0, status |-> 0]]

NotCancelled == -1

InitStream ==
  /\ phase = "idle"
  /\ config = NoConfig
  /\ cancelled = FALSE
  /\ cancelTime = NotCancelled
  /\ emittedAtCancel = << >>
  /\ now = 0
  /\ camPc = << >>
  /\ camNext = << >>
  /\ queue = << >>
  /\ emitted = << >>
  /\ dropped = << >>
  /\ consumed = << >>
  /\ delivered = << >>
  /\ sinkFailed = << >>
  /\ tickFailed = << >>
  /\ window = << >>
  /\ totals = 0

AllStopped == \A c \in DOMAIN camPc : camPc[c] = "stopped"

\* simulate(cameraCount, durationSeconds, frameRate, weights): an invalid
\* configuration fails before anything starts; a valid one starts one loop
\* per camera, its first tick due at once.
Simulate ==
  /\ phase = "idle"
  /\ \E cfg \in Configs :
       /\ config' = cfg
       /\ IF ValidConfiguration(cfg)
            THEN /\ phase' = "running"
                 /\ camPc' = [c \in Cameras(cfg) |-> "wait"]
                 /\ camNext' = [c \in Cameras(cfg) |-> now]
                 /\ queue' = [c \in Cameras(cfg) |-> << >>]
                 /\ emitted' = [c \in Cameras(cfg) |-> 0]
                 /\ dropped' = [c \in Cameras(cfg) |-> 0]
                 /\ consumed' = [c \in Cameras(cfg) |-> 0]
                 /\ delivered' = [c \in Cameras(cfg) |-> 0]
                 /\ sinkFailed' = [c \in Cameras(cfg) |-> 0]
                 /\ tickFailed' = [c \in Cameras(cfg) |-> 0]
            ELSE /\ phase' = "rejected"
                 /\ UNCHANGED <<camPc, camNext, queue, emitted, dropped,
                                consumed, delivered, sinkFailed, tickFailed>>
  /\ UNCHANGED <<cancelled, cancelTime, emittedAtCancel, now, window, totals, apiVars, clientVars>>

\* cancelFn(): sets the shared flag and returns.
Cancel ==
  /\ phase = "running"
  /\ ~cancelled
  /\ cancelled' = TRUE
  /\ cancelTime' = now
  /\ emittedAtCancel' = emitted
  /\ UNCHANGED <<phase, config, now, camPc, camNext, queue, emitted, dropped,
                 consumed, delivered, sinkFailed, tickFailed, window, totals, apiVars, clientVars>>

TickMutIgnoresFlag(c) ==
  /\ phase = "running"
  /\ camPc[c] = "wait"
  /\ camNext[c] <= now
  /\ camPc' = [camPc EXCEPT ![c] =
                 IF now >= DurationFrames(config) THEN "stopped" ELSE "emit"]
  /\ UNCHANGED <<phase, config, cancelled, cancelTime, emittedAtCancel, now, camNext, queue,
                 emitted, dropped, consumed, delivered, sinkFailed, tickFailed, window, totals, apiVars, clientVars>>

\* The frame tick of camera c: the flag is checked once, at the start of
\* the tick; the loop ends when it is set or the duration has run out.
Tick(c) ==
  /\ phase = "running"
  /\ camPc[c] = "wait"
  /\ camNext[c] <= now
  /\ camPc' = [camPc EXCEPT ![c] =
                 IF cancelled \/ now >= DurationFrames(config)
                   THEN "stopped" ELSE "emit"]
  /\ UNCHANGED <<phase, config, cancelled, cancelTime, emittedAtCancel, now, camNext, queue,
                 emitted, dropped, consumed, delivered, sinkFailed, tickFailed, window, totals, apiVars, clientVars>>

\* The failures of a run are bounded: at most MaxFailures ticks fail or
\* have their event refused by the sink.
MaxFailures == 2

RECURSIVE SumCameras(_, _)
SumCameras(f, n) == IF n <= 0 THEN 0 ELSE SumCameras(f, n - 1) + f[n]

Failures ==
  SumCameras(tickFailed, config.cameraCount) + SumCameras(sinkFailed, config.cameraCount)

PushMutUnbounded(q, e) == Append(q, e)

\* Drop-oldest push onto a bounded queue.
Push(q, e) == IF Len(q) >= QueueCapacity THEN Append(Tail(q), e) ELSE Append(q, e)

\* The rest of the tick of camera c: an event of a type of positive weight
\* is produced, the registered sink receives it, it is pushed to the camera's
\* queue and the loop sleeps until the next frame.
Emit(c) ==
  /\ phase = "running"
  /\ camPc[c] = "emit"
  /\ \E i \in DOMAIN EventTypes :
       /\ config.weights[EventTypes[i]] > 0
       /\ queue' = [queue EXCEPT ![c] =
            Push(@, [type |-> EventTypes[i], cameraId |-> c, timestamp |-> now])]
  /\ dropped' = [dropped EXCEPT ![c] = IF Len(queue[c]) >= QueueCapacity THEN @ + 1 ELSE @]
  /\ emitted' = [emitted EXCEPT ![c] = @ + 1]
  /\ delivered' = [delivered EXCEPT ![c] = @ + 1]
  /\ camPc' = [camPc EXCEPT ![c] = "wait"]
  /\ camNext' = [camNext EXCEPT ![c] = now + 1]
  /\ UNCHANGED <<phase, config, cancelled, cancelTime, emittedAtCancel, now, consumed,
                 sinkFailed, tickFailed, window, totals, apiVars, clientVars>>

TickFailsMutAbortsRun(c) ==
  /\ phase = "running"
  /\ camPc[c] = "emit"
  /\ Failures < MaxFailures
  /\ tickFailed' = [tickFailed EXCEPT ![c] = @ + 1]
  /\ camPc' = [d \in DOMAIN camPc |-> "stopped"]
  /\ UNCHANGED <<phase, config, cancelled, cancelTime, emittedAtCancel, now, camNext, queue,
                 emitted, dropped, consumed, delivered, sinkFailed, window, totals, apiVars, clientVars>>

\* The tick of camera c fails while producing its event: the tick is
\* abandoned, nothing is emitted and the loop sleeps until the next frame.
TickFails(c) ==
  /\ phase = "running"
  /\ camPc[c] = "emit"
  /\ Failures < MaxFailures
  /\ tickFailed' = [tickFailed EXCEPT ![c] = @ + 1]
  /\ camPc' = [camPc EXCEPT ![c] = "wait"]
  /\ camNext' = [camNext EXCEPT ![c] = now + 1]
  /\ UNCHANGED <<phase, config, cancelled, cancelTime, emittedAtCancel, now, queue, emitted,
                 dropped, consumed, delivered, sinkFailed, window, totals, apiVars, clientVars>>

\* The registered sink throws on the event of the tick of camera c: the
\* event is dropped and counted, and the loop sleeps until the next frame.
SinkThrows(c) ==
  /\ phase = "running"
  /\ camPc[c] = "emit"
  /\ Failures < MaxFailures
  /\ sinkFailed' = [sinkFailed EXCEPT ![c] = @ + 1]
  /\ camPc' = [camPc EXCEPT ![c] = "wait"]
  /\ camNext' = [camNext EXCEPT ![c] = now + 1]
  /\ UNCHANGED <<phase, config, cancelled, cancelTime, emittedAtCancel, now, queue, emitted,
                 dropped, consumed, delivered, tickFailed, window, totals, apiVars, clientVars>>

EvictMutKeepsAll(w, t) == w

\* Window eviction: events older than the window are discarded.
Evict(w, t) == SelectSeq(w, LAMBDA e : e.timestamp >= t - WindowFrames(config))

ConsumeMutNeverStops(c) ==
  /\ phase = "running"
  /\ queue[c] # << >>
  /\ window' = Evict(Append(window, Head(queue[c])), now)
  /\ totals' = totals + 1
  /\ queue' = [queue EXCEPT ![c] = Tail(@)]
  /\ consumed' = [consumed EXCEPT ![c] = @ + 1]
  /\ UNCHANGED <<phase, config, cancelled, cancelTime, emittedAtCancel, now, camPc, camNext,
                 emitted, dropped, delivered, sinkFailed, tickFailed, apiVars, clientVars>>

\* The aggregator takes the oldest event of camera c's queue into the
\* window and the totals; it stops updating once every loop has stopped.
Consume(c) ==
  /\ phase = "running"
  /\ ~AllStopped
  /\ queue[c] # << >>
  /\ window' = Evict(Append(window, Head(queue[c])), now)
  /\ totals' = totals + 1
  /\ queue' = [queue EXCEPT ![c] = Tail(@)]
  /\ consumed' = [consumed EXCEPT ![c] = @ + 1]
  /\ UNCHANGED <<phase, config, cancelled, cancelTime, emittedAtCancel, now, camPc, camNext,
                 emitted, dropped, delivered, sinkFailed, tickFailed, apiVars, clientVars>>

\* A frame interval passes: no loop is in the middle of a tick and no tick
\* is overdue.
Tock ==
  /\ phase = "running"
  /\ ~AllStopped
  /\ \A c \in DOMAIN camPc :
       camPc[c] = "stopped" \/ (camPc[c] = "wait" /\ camNext[c] > now)
  /\ now' = now + 1
  /\ UNCHANGED <<phase, config, cancelled, cancelTime, emittedAtCancel, camPc, camNext, queue,
                 emitted, dropped, consumed, delivered, sinkFailed, tickFailed, window, totals, apiVars, clientVars>>

NextStream ==
  \/ Simulate
  \/ Cancel
  \/ \E c \in DOMAIN camPc : Tick(c)
  \/ \E c \in DOMAIN camPc : Emit(c)
  \/ \E c \in DOMAIN camPc : TickFails(c)
  \/ \E c \in DOMAIN camPc : SinkThrows(c)
  \/ \E c \in DOMAIN camPc : Consume(c)
  \/ Tock

(***************************************************************************)
(* The simulation lab page (SecretSimulation).  Each call of runSimulation *)
(* that passed its guard is a run: an asynchronous loop that sleeps before *)
(* every frame, then fetches the detection results once.  runs[r] holds    *)
(* where run r stands: the frame i its loop will write next, the fetches   *)
(* it attempted, and how its fetch settled.  The log lines and the         *)
(* selected detection take no part in the control flow and are left out.   *)
(***************************************************************************)
Frames == 30

MaxRuns == 2

InitLab ==
  /\ isRunning = FALSE
  /\ currentFrame = 0
  /\ results = Absent
  /\ runs = << >>
  /\ halted = FALSE

notLabVars == <<apiVars, streamVars, dashVars, socketVars, cacheVars>>

\* The runs whose loop has not reached its end.
InProgress == {r \in DOMAIN runs : runs[r].pc # "done"}

\* The Run button is rendered while isRunning is false; runSimulation returns
\* at once when isRunning is true, otherwise sets the flag, resets the frame
\* counter and enters the loop at i = 1.
RunClick ==
  /\ ~isRunning
  /\ Len(runs) < MaxRuns
  /\ isRunning' = TRUE
  /\ currentFrame' = 0
  /\ runs' = Append(runs, [pc |-> "sleep", i |-> 1, fetches |-> 0, outcome |-> "none"])
  /\ halted' = FALSE
  /\ UNCHANGED <<results, notLabVars>>

\* The 100 ms timer of run r fires: setCurrentFrame(i).  After frame 30 the loop
\* ends and the fetch is issued.  Timers of equal delay fire in the order they
\* were set, so a later run never writes frame i before an earlier one has.
FrameTick(r) ==
  /\ runs[r].pc = "sleep"
  /\ \A q \in 1 .. (r - 1) : runs[q].pc = "sleep" => runs[q].i > runs[r].i
  /\ currentFrame' = runs[r].i
  /\ runs' = [runs EXCEPT ![r] =
                IF runs[r].i < Frames
                  THEN [@ EXCEPT !.i = @ + 1]
                  ELSE [@ EXCEPT !.pc = "fetch", !.fetches = @ + 1]]
  /\ UNCHANGED <<isRunning, results, halted, notLabVars>>

\* The fetch of run r settles.  When fetch or response.json() throws, the catch
\* block logs the error and the results stay as they were; either way the
\* statement after the try block runs.
FetchSettlesMutNoCatch(r) ==
  /\ runs[r].pc = "fetch"
  /\ \E ok \in BOOLEAN :
       /\ results' = IF ok THEN <<[run |-> r]>> ELSE results
       /\ isRunning' = IF ok THEN FALSE ELSE isRunning
       /\ runs' = [runs EXCEPT ![r] = [@ EXCEPT !.pc = "done",
                                                 !.outcome = IF ok THEN "ok" ELSE "threw"]]
  /\ UNCHANGED <<currentFrame, halted, notLabVars>>

FetchSettles(r) ==
  /\ runs[r].pc = "fetch"
  /\ \E ok \in BOOLEAN :
       /\ results' = IF ok THEN <<[run |-> r]>> ELSE results
       /\ runs' = [runs EXCEPT ![r] = [@ EXCEPT !.pc = "done",
                                                 !.outcome = IF ok THEN "ok" ELSE "threw"]]
  /\ isRunning' = FALSE
  /\ UNCHANGED <<currentFrame, halted, notLabVars>>

\* The Stop button is rendered while isRunning is true.
StopClick ==
  /\ isRunning
  /\ isRunning' = FALSE
  /\ currentFrame' = 0
  /\ halted' = TRUE
  /\ UNCHANGED <<results, runs, notLabVars>>

\* The Reset button is always rendered.
ResetClick ==
  /\ results' = Absent
  /\ currentFrame' = 0
  /\ UNCHANGED <<isRunning, runs, halted, notLabVars>>

(***************************************************************************)
(* The analytics dashboard page (Dashboard).  Its effect depends on        *)
(* autoRefresh and selectedTimeRange: React runs the cleanup the previous  *)
(* run of the effect returned, then the effect again, whenever one of the  *)
(* two changes.  Time is counted in seconds; a timer or a fetch whose time *)
(* has come acts before more time passes.  The mock numbers fetchData      *)
(* draws are not modelled.                                                 *)
(***************************************************************************)
RefreshSeconds == 30

FetchSeconds == 1

TimeRanges == {"1h", "24h", "7d", "30d"}

notDashVars == <<apiVars, streamVars, labVars, socketVars, cacheVars>>

\* The cleanup of the previous run of the effect: clearInterval of the timer
\* that run created, when it created one.
CleanupMutLeaksTimer(ts, had) == ts

Cleanup(ts, had) == IF had THEN Tail(ts) ELSE ts

\* The effect body after fetchData(): a new timer when auto-refresh is on.
EffectTimers(ts, on) == IF on THEN Append(ts, RefreshSeconds) ELSE ts

\* The state after the first render and the first run of the effect.
InitDash ==
  /\ autoRefresh = TRUE
  /\ selectedTimeRange = "24h"
  /\ loading = TRUE
  /\ analytics = Absent
  /\ timers = EffectTimers(<< >>, TRUE)
  /\ fetching = <<FetchSeconds>>
  /\ sinceFetch = 0

\* fetchData up to its await: setLoading(true) and the one-second delay.
StartFetch ==
  /\ loading' = TRUE
  /\ fetching' = Append(fetching, FetchSeconds)
  /\ sinceFetch' = 0

\* The controls are rendered once loading is false.
ToggleAutoRefresh ==
  /\ ~loading
  /\ autoRefresh' = ~autoRefresh
  /\ timers' = EffectTimers(Cleanup(timers, autoRefresh), autoRefresh')
  /\ StartFetch
  /\ UNCHANGED <<selectedTimeRange, analytics, notDashVars>>

SelectTimeRange(range) ==
  /\ ~loading
  /\ range # selectedTimeRange
  /\ selectedTimeRange' = range
  /\ timers' = EffectTimers(Cleanup(timers, autoRefresh), autoRefresh)
  /\ StartFetch
  /\ UNCHANGED <<autoRefresh, analytics, notDashVars>>

\* A setInterval timer fires: it calls fetchData and is due again in 30 s.
IntervalFires(t) ==
  /\ timers[t] = 0
  /\ timers' = [timers EXCEPT ![t] = RefreshSeconds]
  /\ StartFetch
  /\ UNCHANGED <<autoRefresh, selectedTimeRange, analytics, notDashVars>>

\* fetchData after its await: the mock data is published, loading ends.
FetchDone ==
  /\ fetching # << >>
  /\ Head(fetching) = 0
  /\ fetching' = Tail(fetching)
  /\ analytics' = <<"mock">>
  /\ loading' = FALSE
  /\ UNCHANGED <<autoRefresh, selectedTimeRange, timers, sinceFetch, notDashVars>>

\* One second passes.
Second ==
  /\ \A t \in DOMAIN timers : timers[t] > 0
  /\ \A f \in DOMAIN fetching : fetching[f] > 0
  /\ timers' = [t \in DOMAIN timers |-> timers[t] - 1]
  /\ fetching' = [f \in DOMAIN fetching |-> fetching[f] - 1]
  /\ sinceFetch' = IF sinceFetch > RefreshSeconds THEN sinceFetch ELSE sinceFetch + 1
  /\ UNCHANGED <<autoRefresh, selectedTimeRange, loading, analytics, notDashVars>>

NextDash ==
  \/ ToggleAutoRefresh
  \/ \E range \in TimeRanges : SelectTimeRange(range)
  \/ \E t \in DOMAIN timers : IntervalFires(t)
  \/ FetchDone
  \/ Second

(***************************************************************************)
(* The socket client (src/lib/socket.ts).  A socket instance is a record:  *)
(* its identity, its auth token, the number of handlers registered for     *)
(* each event, its connection state and the token its last handshake       *)
(* carried.  socket.io sends the auth of the moment the transport opens,   *)
(* and with reconnection enabled opens it again after a lost connection.   *)
(***************************************************************************)
MaxSockets == 3

Tokens == {"", "a", "b"}

NoHandshake == <<"none">>

notSocketVars == <<apiVars, streamVars, labVars, dashVars, cacheVars>>

InitSocket ==
  /\ socket = Absent
  /\ created = 0
  /\ lastCall = [op |-> "none", ret |-> 0]
  /\ lastToken = Absent
  /\ connectCalled = FALSE

\* io(url, {autoConnect: false, ...}) and the three socket.on calls.
NewSocket(id) ==
  [id |-> id, auth |-> Absent, state |-> "idle", handshake |-> NoHandshake,
   handlers |-> [connect |-> 1, disconnect |-> 1, error |-> 1]]

\* getSocket: the module-level socket after the call, n sockets having been
\* created before it.
getSocketMutRegistersAgain(s, n) ==
  IF s = Absent
    THEN <<NewSocket(n + 1)>>
    ELSE <<[s[1] EXCEPT !.handlers = [e \in DOMAIN @ |-> @[e] + 1]]>>

getSocket(s, n) == IF s = Absent THEN <<NewSocket(n + 1)>> ELSE s

GetSocket ==
  /\ socket = Absent => created < MaxSockets
  /\ socket' = getSocket(socket, created)
  /\ created' = IF socket = Absent THEN created + 1 ELSE created
  /\ lastCall' = [op |-> "getSocket", ret |-> socket'[1].id]
  /\ UNCHANGED <<lastToken, connectCalled, notSocketVars>>

\* connectSocket(token?): socket.connect() starts connecting unless the socket
\* is connecting or connected already.
ConnectSocket(token) ==
  /\ socket = Absent => created < MaxSockets
  /\ LET s == getSocket(socket, created)[1]
         a == IF Truthy(token) THEN token ELSE s.auth
     IN  socket' = <<[s EXCEPT !.auth = a,
                               !.state = IF @ = "idle" THEN "connecting" ELSE @]>>
  /\ created' = IF socket = Absent THEN created + 1 ELSE created
  /\ lastCall' = [op |-> "connectSocket", ret |-> socket'[1].id]
  /\ lastToken' = IF Truthy(token) THEN token ELSE lastToken
  /\ connectCalled' = TRUE
  /\ UNCHANGED notSocketVars

\* disconnectSocket: socket.disconnect() and socket = null, when there is one.
DisconnectSocketMutKeepsInstance ==
  /\ socket' = IF socket = Absent THEN Absent
               ELSE <<[socket[1] EXCEPT !.state = "idle"]>>
  /\ lastCall' = [op |-> "disconnectSocket",
                  ret |-> IF socket = Absent THEN 0 ELSE socket[1].id]
  /\ lastToken' = Absent
  /\ connectCalled' = FALSE
  /\ UNCHANGED <<created, notSocketVars>>

DisconnectSocket ==
  /\ socket' = Absent
  /\ lastCall' = [op |-> "disconnectSocket",
                  ret |-> IF socket = Absent THEN 0 ELSE socket[1].id]
  /\ lastToken' = Absent
  /\ connectCalled' = FALSE
  /\ UNCHANGED <<created, notSocketVars>>

\* The transport opens: the handshake carries the auth the socket has now.
Handshake ==
  /\ socket # Absent
  /\ socket[1].state = "connecting"
  /\ socket' = <<[socket[1] EXCEPT !.state = "connected", !.handshake = socket[1].auth]>>
  /\ lastCall' = [op |-> "none", ret |-> 0]
  /\ UNCHANGED <<created, lastToken, connectCalled, notSocketVars>>

\* The connection is lost: with reconnection: true the socket connects again.
ConnectionLost ==
  /\ socket # Absent
  /\ socket[1].state = "connected"
  /\ socket' = <<[socket[1] EXCEPT !.state = "connecting"]>>
  /\ lastCall' = [op |-> "none", ret |-> 0]
  /\ UNCHANGED <<created, lastToken, connectCalled, notSocketVars>>

NextSocket ==
  \/ GetSocket
  \/ \E token \in Maybe(Tokens) : ConnectSocket(token)
  \/ DisconnectSocket
  \/ Handshake
  \/ ConnectionLost

(***************************************************************************)
(* The cache helpers (src/lib/redis.ts).  Redis is a map from keys to      *)
(* entries: the serialized string and the seconds the entry has left, or   *)
(* Absent for an entry without expiry.  SETEX refuses a time that is not   *)
(* positive; an entry whose time has elapsed is gone.  promised records,   *)
(* for each key, what the caller's last cacheSet named: the value, and the *)
(* expirationSeconds argument when one was passed.                         *)
(***************************************************************************)
MaxTtl == 2

Keys == {"k1", "k2"}

Null == [t |-> "null"]

Values == {Null, [t |-> "number", v |-> "0"], [t |-> "string", v |-> ""], [t |-> "string", v |-> "v"]}

Expirations == Maybe((0 - 1) .. MaxTtl)

\* JSON.stringify and JSON.parse on these values.
Stringify(value) ==
  CASE value.t = "null" -> "null"
    [] value.t = "number" -> value.v
    [] value.t = "string" -> IF value.v = "" THEN "\"\"" ELSE "\"v\""

Parse(data) ==
  CASE data = "null" -> Null
    [] data = "0" -> [t |-> "number", v |-> "0"]
    [] data = "\"\"" -> [t |-> "string", v |-> ""]
    [] data = "\"v\"" -> [t |-> "string", v |-> "v"]

notCacheVars == <<apiVars, streamVars, labVars, dashVars, socketVars>>

InitCache ==
  /\ entries = [k \in Keys |-> Absent]
  /\ lastGet = Absent
  /\ lastSet = "none"
  /\ promised = [k \in Keys |-> Absent]

\* redis.get(key): the data of a live entry, or Absent (nil).
RedisGet(key) == IF entries[key] = Absent THEN Absent ELSE <<entries[key][1].data>>

\* cacheGet: data ? JSON.parse(data) : null
cacheGet(key) == IF Truthy(RedisGet(key)) THEN Parse(RedisGet(key)[1]) ELSE Null

CacheGet(key) ==
  /\ lastGet' = <<[key |-> key, result |-> cacheGet(key)]>>
  /\ UNCHANGED <<entries, lastSet, promised, notCacheVars>>

\* if (expirationSeconds): the argument was passed and is neither 0 nor NaN.
WithExpiry(expirationSeconds) == expirationSeconds # Absent /\ expirationSeconds[1] # 0

\* cacheSet: redis.setex with the expiration, or redis.set without one.  SETEX
\* with a time that is not positive fails and stores nothing.
CacheSet(key, value, expirationSeconds) ==
  /\ IF WithExpiry(expirationSeconds)
       THEN IF expirationSeconds[1] > 0
              THEN /\ entries' = [entries EXCEPT ![key] =
                                  <<[data |-> Stringify(value), ttl |-> expirationSeconds]>>]
                   /\ lastSet' = "stored"
              ELSE /\ entries' = entries
                   /\ lastSet' = "rejected"
       ELSE /\ entries' = [entries EXCEPT ![key] =
                           <<[data |-> Stringify(value), ttl |-> Absent]>>]
            /\ lastSet' = "stored"
  /\ promised' = [promised EXCEPT ![key] = <<[value |-> value, ttl |-> expirationSeconds]>>]
  /\ UNCHANGED <<lastGet, notCacheVars>>

CacheDel(key) ==
  /\ entries' = [entries EXCEPT ![key] = Absent]
  /\ promised' = [promised EXCEPT ![key] = Absent]
  /\ lastSet' = "none"
  /\ UNCHANGED <<lastGet, notCacheVars>>

CacheFlush ==
  /\ entries' = [k \in Keys |-> Absent]
  /\ promised' = [k \in Keys |-> Absent]
  /\ lastSet' = "none"
  /\ UNCHANGED <<lastGet, notCacheVars>>

\* One second less of a time-to-live.
Elapse(ttl) == IF ttl = Absent \/ ttl[1] <= 0 THEN ttl ELSE <<ttl[1] - 1>>

\* One second passes: Redis drops the entries whose time has elapsed.
CacheSecond ==
  /\ \E k \in Keys : entries[k] # Absent /\ entries[k][1].ttl # Absent
  /\ entries' = [k \in Keys |->
                 IF entries[k] = Absent THEN Absent
                 ELSE IF Elapse(entries[k][1].ttl) = <<0>> THEN Absent
                 ELSE <<[entries[k][1] EXCEPT !.ttl = Elapse(@)]>>]
  /\ promised' = [k \in Keys |->
                    IF promised[k] = Absent THEN Absent
                    ELSE <<[promised[k][1] EXCEPT !.ttl = Elapse(@)]>>]
  /\ UNCHANGED <<lastGet, lastSet, notCacheVars>>

NextCache ==
  \/ \E k \in Keys : CacheGet(k)
  \/ \E k \in Keys, v \in Values, e \in Expirations : CacheSet(k, v, e)
  \/ \E k \in Keys : CacheDel(k)
  \/ CacheFlush
  \/ CacheSecond

Init == InitApi /\ InitStream /\ InitLab /\ InitDash /\ InitSocket /\ InitCache

NextLab ==
  \/ RunClick
  \/ StopClick
  \/ ResetClick
  \/ \E r \in DOMAIN runs : FrameTick(r)
  \/ \E r \in DOMAIN runs : FetchSettles(r)

\* The simulation lab page.
SpecLab == Init /\ [][NextLab]_vars

\* The simulation lab page, with every pending timer firing and every issued
\* fetch settling.
SpecLabFair ==
  /\ SpecLab
  /\ \A r \in 1 .. MaxRuns : WF_vars(r \in DOMAIN runs /\ FrameTick(r))
  /\ \A r \in 1 .. MaxRuns : WF_vars(r \in DOMAIN runs /\ FetchSettles(r))

\* The analytics dashboard page.
SpecDash == Init /\ [][NextDash]_vars

\* The socket client.
SpecSocket == Init /\ [][NextSocket]_vars

\* The cache helpers.
SpecCache == Init /\ [][NextCache]_vars

\* The simulation API route: the requests it answers.
Next == NextApi

Spec == Init /\ [][Next]_vars

\* The stream scheduler.
SpecStream == Init /\ [][NextStream]_vars

(***************************************************************************)
(* What a response holds.                                                  *)
(***************************************************************************)
IsSnapshot(body) == "detections" \in DOMAIN body

IsAnalytics(body) == "shelf_snapshots" \in DOMAIN body

Responded == response # Absent

SnapshotResponse == Responded /\ IsSnapshot(response[1].body)

AnalyticsResponse == Responded /\ IsAnalytics(response[1].body)

\* Every shelf snapshot of the response: the body of a shelf response, the
\* shelf_snapshots of a store response.
ResponseSnapshots ==
  IF SnapshotResponse THEN {response[1].body}
  ELSE IF AnalyticsResponse
    THEN {response[1].body.shelf_snapshots[i] : i \in DOMAIN response[1].body.shelf_snapshots}
  ELSE {}

\* Every detection of the response.
ResponseDetections ==
  UNION {{s.detections[i] : i \in DOMAIN s.detections} : s \in ResponseSnapshots}

Flagged(s, flag) == {i \in DOMAIN s.detections : s.detections[i][flag]}

(***************************************************************************)
(* C1: the condition score of every returned shelf snapshot lies in        *)
(* 0 .. 100.  The code clamps at 0 only: a shelf without flagged           *)
(* detections scores 100 + 1.5 * numProducts >= 115.                       *)
(***************************************************************************)
C1_ScoreWithin0And100 ==
  \A s \in ResponseSnapshots :
    /\ 0 <= s.condition.overall_score
    /\ s.condition.overall_score <= 100 * ScoreDen

(***************************************************************************)
(* C2: the condition category of every returned shelf snapshot is the one  *)
(* the thresholds give its score: >= 85 Excellent, 70 <= score < 85 Good,  *)
(* 50 <= score < 70 Fair, < 50 Poor.                                       *)
(***************************************************************************)
C2_CategoryByThresholds ==
  \A s \in ResponseSnapshots :
    LET score == s.condition.overall_score
        cat   == s.condition.condition
    IN /\ cat \in {"Excellent", "Good", "Fair", "Poor"}
       /\ (cat = "Excellent") <=> (score >= 85 * ScoreDen)
       /\ (cat = "Good") <=> (70 * ScoreDen <= score /\ score < 85 * ScoreDen)
       /\ (cat = "Fair") <=> (50 * ScoreDen <= score /\ score < 70 * ScoreDen)
       /\ (cat = "Poor") <=> (score < 50 * ScoreDen)

\* A response holding shelves at the boundary scores 85, 70 and 50, each in
\* the upper category, and a shelf below 50.
C2_Witness ==
  /\ \E s \in ResponseSnapshots :
       s.condition.overall_score = 85 * ScoreDen /\ s.condition.condition = "Excellent"
  /\ \E s \in ResponseSnapshots :
       s.condition.overall_score = 70 * ScoreDen /\ s.condition.condition = "Good"
  /\ \E s \in ResponseSnapshots :
       s.condition.overall_score = 50 * ScoreDen /\ s.condition.condition = "Fair"
  /\ \E s \in ResponseSnapshots :
       s.condition.overall_score < 50 * ScoreDen /\ s.condition.condition = "Poor"

(***************************************************************************)
(* C3: condition.alerts = metrics.misplaced_count + metrics.low_stock_count *)
(* and each count is the number of detections of the list with that flag.  *)
(***************************************************************************)
C3_AlertsAreSumOfCounts ==
  \A s \in ResponseSnapshots :
    /\ s.metrics.misplaced_count = Cardinality(Flagged(s, "is_misplaced"))
    /\ s.metrics.low_stock_count = Cardinality(Flagged(s, "is_low_stock"))
    /\ s.condition.alerts = s.metrics.misplaced_count + s.metrics.low_stock_count

\* A snapshot with a detection carrying both flags, one carrying one flag
\* and one carrying none: alerts exceeds the number of flagged detections.
C3_Witness ==
  \E s \in ResponseSnapshots :
    /\ Flagged(s, "is_misplaced") \cap Flagged(s, "is_low_stock") # {}
    /\ Flagged(s, "is_misplaced") \ Flagged(s, "is_low_stock") # {}
    /\ DOMAIN s.detections \ (Flagged(s, "is_misplaced") \cup Flagged(s, "is_low_stock")) # {}
    /\ s.condition.alerts >
         Cardinality(Flagged(s, "is_misplaced") \cup Flagged(s, "is_low_stock"))

(***************************************************************************)
(* C4: metrics.total_products is the length of the detections list and     *)
(* metrics.unique_products the number of distinct product ids in it.       *)
(***************************************************************************)
C4_ProductCounts ==
  \A s \in ResponseSnapshots :
    /\ s.metrics.total_products = Len(s.detections)
    /\ \E ids \in SUBSET {PRODUCTS[j].id : j \in DOMAIN PRODUCTS} :
         /\ \A i \in DOMAIN s.detections : s.detections[i].product_id \in ids
         /\ \A id \in ids : \E i \in DOMAIN s.detections : s.detections[i].product_id = id
         /\ s.metrics.unique_products = Cardinality(ids)

\* A snapshot in which some product occurs twice and three products occur.
C4_Witness ==
  \E s \in ResponseSnapshots :
    /\ s.metrics.unique_products = 3
    /\ s.metrics.total_products > 3
    /\ \E i, j \in DOMAIN s.detections :
         i # j /\ s.detections[i].product_id = s.detections[j].product_id

(***************************************************************************)
(* C5: in every store analytics the four bucket counts sum to              *)
(* summary.total_shelves, which is the length of shelf_snapshots.          *)
(***************************************************************************)
C5_BucketsSumToShelves ==
  AnalyticsResponse =>
    LET a == response[1].body
    IN /\ a.performance.excellent_shelves + a.performance.good_shelves
            + a.performance.fair_shelves + a.performance.poor_shelves
          = a.summary.total_shelves
       /\ a.summary.total_shelves = Len(a.shelf_snapshots)

\* A store analytics with a shelf in every bucket.
C5_Witness ==
  /\ AnalyticsResponse
  /\ response[1].body.performance.excellent_shelves > 0
  /\ response[1].body.performance.good_shelves > 0
  /\ response[1].body.performance.fair_shelves > 0
  /\ response[1].body.performance.poor_shelves > 0
  /\ Len(response[1].body.shelf_snapshots) = 12

(***************************************************************************)
(* C6: summary.efficiency_score = 100 * (number of shelf snapshots with    *)
(* score >= 70) / N, in the unit and truncation of Efficiency.             *)
(***************************************************************************)
C6_EfficiencyScore ==
  AnalyticsResponse =>
    LET a    == response[1].body
        good == {i \in DOMAIN a.shelf_snapshots :
                   a.shelf_snapshots[i].condition.overall_score >= 70 * ScoreDen}
    IN a.summary.efficiency_score * a.summary.total_shelves
            <= 100 * EffScale * Cardinality(good)
       /\ 100 * EffScale * Cardinality(good)
            < (a.summary.efficiency_score + 1) * a.summary.total_shelves

\* A store analytics with a shelf scoring exactly 70, one scoring less and
\* one scoring 85 or more: efficiency strictly between 0 and 100.
C6_Witness ==
  /\ AnalyticsResponse
  /\ \E s \in ResponseSnapshots : s.condition.overall_score = 70 * ScoreDen
  /\ \E s \in ResponseSnapshots : s.condition.overall_score < 70 * ScoreDen
  /\ \E s \in ResponseSnapshots : s.condition.overall_score >= 85 * ScoreDen
  /\ response[1].body.summary.efficiency_score > 0
  /\ response[1].body.summary.efficiency_score < 100 * EffScale

(***************************************************************************)
(* C7, as claimed: a shelf snapshot built for a caller that names a count  *)
(* holds exactly that many detections.                                     *)
(***************************************************************************)
C7_CallerCountHonoured ==
  (SnapshotResponse /\ request[1].count # Absent) =>
    /\ Len(response[1].body.detections) = request[1].count[1]
    /\ response[1].body.metrics.total_products = request[1].count[1]

(***************************************************************************)
(* C7, amended: the builder draws the count itself.  Every shelf snapshot  *)
(* holds between 10 and 24 detections, one per loop iteration 0 .. n-1 in  *)
(* order, and total_products is that number, whatever count the request    *)
(* names.                                                                  *)
(***************************************************************************)
C7_CountDrawnByBuilder ==
  \A s \in ResponseSnapshots :
    /\ Len(s.detections) \in 10 .. 24
    /\ \A i \in DOMAIN s.detections :
         s.detections[i].detection_id = <<"det", s.shelf_id, i - 1>>
    /\ s.metrics.total_products = Len(s.detections)

\* A request naming count 15 answered by a snapshot of 24 detections.
C7_Witness ==
  /\ SnapshotResponse
  /\ request[1].count = <<15>>
  /\ Len(response[1].body.detections) = 24
  /\ response[1].body.metrics.total_products = 24

(***************************************************************************)
(* C8, as claimed: a store request naming shelfCount = N is answered with  *)
(* exactly N shelf snapshots, and with 12 when it names none.              *)
(***************************************************************************)
C8_ShelfCountHonoured ==
  AnalyticsResponse =>
    Len(response[1].body.shelf_snapshots) =
      IF request[1].shelfCount = Absent THEN 12 ELSE request[1].shelfCount[1]

(***************************************************************************)
(* C8, amended: every store analytics response holds exactly 12 shelf      *)
(* snapshots, shelf_1 .. shelf_12 in order, whether or not the request     *)
(* names a shelfCount.                                                     *)
(***************************************************************************)
C8_AlwaysTwelveShelves ==
  AnalyticsResponse =>
    LET a == response[1].body
    IN /\ Len(a.shelf_snapshots) = 12
       /\ a.summary.total_shelves = 12
       /\ \A i \in DOMAIN a.shelf_snapshots :
            a.shelf_snapshots[i].shelf_id = "shelf_" \o ToString(i)

\* A store request naming shelfCount = 3 answered with 12 shelf snapshots.
C8_Witness ==
  /\ AnalyticsResponse
  /\ request[1].shelfCount = <<3>>
  /\ Len(response[1].body.shelf_snapshots) = 12

(***************************************************************************)
(* C9: the confidence of every detection of every response lies in         *)
(* 0.85 .. 0.99.                                                           *)
(***************************************************************************)
C9_ConfidenceRange ==
  \A d \in ResponseDetections :
    /\ 85 * RandDen <= d.confidence
    /\ d.confidence <= 99 * RandDen

\* A snapshot with a detection at confidence 0.85, the lowest draw, and one
\* above 0.98, the highest draw of the grid, with different products and flags.
C9_Witness ==
  \E d, e \in ResponseDetections :
    /\ d.confidence = 85 * RandDen
    /\ e.confidence > 98 * RandDen
    /\ d.product_id # e.product_id
    /\ d.is_misplaced /\ ~e.is_misplaced

(***************************************************************************)
(* C10: once cancelFn has returned, a camera emits no event more than one  *)
(* frame interval later and at most the one event of the tick it was in;   *)
(* and once every camera loop has stopped, no step changes the sliding     *)
(* window or the totals.                                                   *)
(***************************************************************************)
C10_CancellationStopsStream ==
  [][ /\ (phase = "running" /\ cancelled /\ emitted' # emitted) =>
           \A c \in DOMAIN emitted :
              emitted'[c] # emitted[c] =>
                /\ now' <= cancelTime + 1
                /\ emitted'[c] <= emittedAtCancel[c] + 1
      /\ (phase = "running" /\ AllStopped) => UNCHANGED <<window, totals>>
    ]_vars

\* A cancelled run of two cameras, a frame interval after the cancel: every
\* loop has stopped, one camera emitted the event of the tick it was in when
\* cancelFn returned, the other emitted nothing more, and an event is left
\* in a queue that the aggregator no longer takes.
C10_Witness ==
  /\ phase = "running" /\ cancelled /\ AllStopped
  /\ now > cancelTime
  /\ DOMAIN camPc = {1, 2}
  /\ \E c \in DOMAIN emitted : emitted[c] = emittedAtCancel[c] + 1
  /\ \E c \in DOMAIN emitted : emitted[c] = emittedAtCancel[c]
  /\ \E c \in DOMAIN queue : queue[c] # << >>
  /\ totals > 0

(***************************************************************************)
(* C11: simulate rejects an invalid configuration before anything is       *)
(* emitted.  Once simulate was called with weights that do not sum to 1.0  *)
(* or with a camera count, duration or frame rate that is not positive,    *)
(* the call has failed, no camera loop exists and no event was emitted,    *)
(* delivered to the sink, queued or aggregated; and only such a call       *)
(* fails.                                                                  *)
(***************************************************************************)
C11_InvalidConfigurationRejected ==
  LET invalid == \/ config.weights.detection + config.weights.alert
                      + config.weights.status # 10
                 \/ config.cameraCount <= 0
                 \/ config.durationSeconds <= 0
                 \/ config.frameRate <= 0
  IN /\ (phase # "idle" /\ invalid) =>
          /\ phase = "rejected"
          /\ DOMAIN camPc = {}
          /\ DOMAIN emitted = {} /\ DOMAIN delivered = {} /\ DOMAIN queue = {}
          /\ window = << >> /\ totals = 0
     /\ phase = "rejected" => invalid

\* simulate was called with two cameras, a positive duration and frame rate
\* and the weights 0.5, 0.2, 0.1, and failed.
C11_Witness ==
  /\ phase = "rejected"
  /\ config.weights = [detection |-> 5, alert |-> 2, status |-> 1]
  /\ config.cameraCount = 2
  /\ config.durationSeconds > 0
  /\ config.frameRate > 0

(***************************************************************************)
(* C12: every per-camera queue is bounded with drop-oldest backpressure.   *)
(* In every state a queue holds at most QueueCapacity events, and events   *)
(* emitted = consumed + queued + dropped; a loop about to push is never    *)
(* blocked; a push onto a full queue removes the oldest event, appends the *)
(* new one and adds exactly one to the dropped counter; a push onto a      *)
(* queue with room appends and drops nothing; nothing else changes the     *)
(* dropped counter.                                                        *)
(***************************************************************************)
C12_Accounting ==
  \A c \in DOMAIN queue :
    /\ Len(queue[c]) <= QueueCapacity
    /\ emitted[c] = consumed[c] + Len(queue[c]) + dropped[c]
    /\ camPc[c] = "emit" => ENABLED Emit(c)

C12_PushStep ==
  \A c \in DOMAIN queue \cap DOMAIN queue' :
    LET pushed == emitted'[c] = emitted[c] + 1
        full   == Len(queue[c]) = QueueCapacity
        new    == queue'[c][Len(queue'[c])]
    IN /\ emitted'[c] # emitted[c] => pushed
       /\ (pushed /\ full) =>
            /\ queue'[c] = Append(Tail(queue[c]), new)
            /\ dropped'[c] = dropped[c] + 1
       /\ (pushed /\ ~full) =>
            /\ queue'[c] = Append(queue[c], new)
            /\ dropped'[c] = dropped[c]
       /\ pushed => new.cameraId = c /\ new.timestamp = now
       /\ dropped'[c] # dropped[c] => (pushed /\ full)

C13_NonPositiveShelfCountFails ==
  (Responded /\ request[1].shelfCount # Absent /\ request[1].shelfCount[1] <= 0) =>
    /\ response[1].status = 400
    /\ ~IsAnalytics(response[1].body)

(***************************************************************************)
(* C13, amended: the route never builds store analytics from a shelf count *)
(* that is not positive, and fails no request for its shelfCount.  Every   *)
(* analytics object returned, also for a request naming shelfCount = 0,    *)
(* has status 200, twelve shelves, and a defined average confidence and    *)
(* efficiency score within their ranges.                                   *)
(***************************************************************************)
C13_AnalyticsNeverEmpty ==
  AnalyticsResponse =>
    LET a == response[1].body
    IN /\ response[1].status = 200
       /\ a.summary.total_shelves > 0
       /\ Len(a.shelf_snapshots) = a.summary.total_shelves
       /\ a.summary.avg_confidence \in (85 * RandDen) .. (99 * RandDen)
       /\ a.summary.efficiency_score \in 0 .. (100 * EffScale)

\* A store request naming shelfCount = 0 answered with a full analytics
\* object.
C13_Witness ==
  /\ AnalyticsResponse
  /\ request[1].shelfCount = <<0>>
  /\ response[1].status = 200
  /\ Len(response[1].body.shelf_snapshots) = 12
  /\ response[1].body.summary.avg_confidence >= 85 * RandDen

(***************************************************************************)
(* C14: no shelf snapshot and no detection is ever produced for the empty  *)
(* shelf id.  A shelf query whose shelfId is empty is answered with the    *)
(* 400 error and no snapshot, and every snapshot of every response, and    *)
(* every detection in it, names a shelf id that is not empty.              *)
(***************************************************************************)
C14_NoEmptyShelfId ==
  /\ \A s \in ResponseSnapshots :
       /\ s.shelf_id # ""
       /\ s.snapshot_id[2] = s.shelf_id
       /\ \A i \in DOMAIN s.detections : s.detections[i].detection_id[2] = s.shelf_id
  /\ (Responded /\ request[1].type = <<"shelf">> /\ request[1].shelfId = <<"">>) =>
       /\ response[1].status = 400
       /\ DOMAIN response[1].body = {"error"}

\* A shelf query with an empty shelfId and a store id, answered with the
\* 400 error.
C14_Witness ==
  /\ Responded
  /\ request[1].type = <<"shelf">>
  /\ request[1].shelfId = <<"">>
  /\ request[1].storeId = <<"store_1">>
  /\ response[1].status = 400
  /\ ~IsSnapshot(response[1].body)

(***************************************************************************)
(* The three outcomes of a request.                                        *)
(***************************************************************************)
SnapshotFields ==
  {"snapshot_id", "shelf_id", "store_id", "detections", "metrics", "condition",
   "processing_time_ms"}

AnalyticsFields == {"store_id", "summary", "shelf_snapshots", "performance"}

CompleteSnapshot == response[1].status = 200 /\ DOMAIN response[1].body = SnapshotFields

CompleteAnalytics == response[1].status = 200 /\ DOMAIN response[1].body = AnalyticsFields

ErrorOnly == response[1].status \in {400, 500} /\ DOMAIN response[1].body = {"error"}

(***************************************************************************)
(* C15, as claimed: every response is exactly one of a complete shelf      *)
(* snapshot (exactly when type is 'shelf' and shelfId is not empty), a     *)
(* complete store analytics (exactly when type is 'store' or absent) or an *)
(* error body with status 400 or 500 and no other field.                   *)
(***************************************************************************)
C15_ThreeOutcomes ==
  Responded =>
    LET shelf == request[1].type = <<"shelf">> /\ request[1].shelfId \notin {Absent, <<"">>}
        store == request[1].type \in {Absent, <<"store">>}
    IN /\ CompleteSnapshot <=> shelf
       /\ CompleteAnalytics <=> store
       /\ ErrorOnly <=> (~shelf /\ ~store)

(***************************************************************************)
(* C15, amended: the same three outcomes, the store analytics being        *)
(* returned exactly when type is 'store', absent or empty; in particular   *)
(* type = shelf without a shelfId gets the 400 error.                      *)
(***************************************************************************)
C15_ThreeOutcomesEmptyTypeIsStore ==
  Responded =>
    LET shelf == request[1].type = <<"shelf">> /\ request[1].shelfId \notin {Absent, <<"">>}
        store == request[1].type \in {Absent, <<"">>, <<"store">>}
    IN /\ CompleteSnapshot <=> shelf
       /\ CompleteAnalytics <=> store
       /\ ErrorOnly <=> (~shelf /\ ~store)
       /\ (request[1].type = <<"shelf">> /\ ~shelf) => response[1].status = 400

\* A request with type = shelf and no shelfId, answered with the 400 error
\* and neither a snapshot nor store analytics.
C15_Witness ==
  /\ Responded
  /\ request[1].type = <<"shelf">>
  /\ request[1].shelfId = Absent
  /\ ErrorOnly
  /\ response[1].status = 400
  /\ ~CompleteAnalytics /\ ~CompleteSnapshot

(***************************************************************************)
(* C16, as claimed: a query whose storeId is empty fails, and no snapshot  *)
(* or analytics is returned for it.                                        *)
(***************************************************************************)
C16_EmptyStoreIdFails ==
  (Responded /\ request[1].storeId = <<"">>) =>
    /\ response[1].status = 400
    /\ ~IsSnapshot(response[1].body)
    /\ ~IsAnalytics(response[1].body)

(***************************************************************************)
(* C16, amended: an empty storeId is treated as an absent one.  Every      *)
(* snapshot or analytics returned, and every shelf snapshot in it, carries *)
(* the store id of the request, or 'store_001' when the request's storeId  *)
(* is absent or empty.                                                     *)
(***************************************************************************)
C16_EmptyStoreIdIsDefault ==
  (SnapshotResponse \/ AnalyticsResponse) =>
    LET storeId == IF request[1].storeId \in {Absent, <<"">>} THEN "store_001"
                   ELSE request[1].storeId[1]
    IN /\ response[1].status = 200
       /\ response[1].body.store_id = storeId
       /\ \A s \in ResponseSnapshots : s.store_id = storeId

\* A store query with an empty storeId answered with the analytics of
\* store_001.
C16_Witness ==
  /\ AnalyticsResponse
  /\ request[1].storeId = <<"">>
  /\ response[1].body.store_id = "store_001"
  /\ \E s \in ResponseSnapshots : s.store_id = "store_001"

(***************************************************************************)
(* The sum f[1] + ... + f[n], and the metrics and condition a detections   *)
(* list determines.                                                        *)
(***************************************************************************)
RECURSIVE Sigma(_, _)
Sigma(f, n) == IF n = 0 THEN 0 ELSE f[n] + Sigma(f, n - 1)

MetricsOf(dets) ==
  [ total_products  |-> Len(dets),
    unique_products |-> Cardinality({dets[i].product_id : i \in DOMAIN dets}),
    avg_confidence  |-> Sigma([i \in DOMAIN dets |-> dets[i].confidence], Len(dets))
                          \div Len(dets),
    total_value     |-> Sigma([i \in DOMAIN dets |->
                                 LET p == CHOOSE j \in DOMAIN PRODUCTS :
                                            PRODUCTS[j].id = dets[i].product_id
                                 IN PRODUCTS[p].price], Len(dets)),
    misplaced_count |-> Cardinality({i \in DOMAIN dets : dets[i].is_misplaced}),
    low_stock_count |-> Cardinality({i \in DOMAIN dets : dets[i].is_low_stock}) ]

ConditionOf(dets) ==
  LET m     == Cardinality({i \in DOMAIN dets : dets[i].is_misplaced})
      l     == Cardinality({i \in DOMAIN dets : dets[i].is_low_stock})
      raw   == 100 * ScoreDen - 10 * ScoreDen * m - 5 * ScoreDen * l + 30 * Len(dets)
      score == IF raw < 0 THEN 0 ELSE raw
  IN [ overall_score |-> score,
       condition     |-> CASE score >= 85 * ScoreDen -> "Excellent"
                           [] score >= 70 * ScoreDen /\ score < 85 * ScoreDen -> "Good"
                           [] score >= 50 * ScoreDen /\ score < 70 * ScoreDen -> "Fair"
                           [] score < 50 * ScoreDen -> "Poor",
       alerts        |-> m + l ]

(***************************************************************************)
(* C19: the metrics and the condition of every shelf snapshot are a        *)
(* function of its detections list and the catalog alone: they equal       *)
(* MetricsOf and ConditionOf of the list, so two snapshots with equal      *)
(* lists have equal metrics, score, condition and alerts.                  *)
(***************************************************************************)
C19_MetricsFromDetections ==
  \A s \in ResponseSnapshots :
    /\ s.metrics = MetricsOf(s.detections)
    /\ s.condition = ConditionOf(s.detections)

\* A snapshot of 17 detections, some misplaced, some low on stock, of more
\* than one product, with a score above the clamp.
C19_Witness ==
  /\ SnapshotResponse
  /\ Len(response[1].body.detections) = 17
  /\ response[1].body.metrics.misplaced_count > 0
  /\ response[1].body.metrics.low_stock_count > response[1].body.metrics.misplaced_count
  /\ response[1].body.metrics.unique_products > 2
  /\ response[1].body.condition.overall_score > 0
  /\ response[1].body.condition.condition = "Fair"

(***************************************************************************)
(* C20: in every store analytics, summary.total_products, total_value and  *)
(* total_alerts are the sums over its shelf_snapshots of                   *)
(* metrics.total_products, metrics.total_value and condition.alerts.       *)
(***************************************************************************)
C20_SummarySums ==
  AnalyticsResponse =>
    LET a == response[1].body
        n == Len(a.shelf_snapshots)
    IN /\ a.summary.total_products =
            Sigma([i \in 1 .. n |-> a.shelf_snapshots[i].metrics.total_products], n)
       /\ a.summary.total_value =
            Sigma([i \in 1 .. n |-> a.shelf_snapshots[i].metrics.total_value], n)
       /\ a.summary.total_alerts =
            Sigma([i \in 1 .. n |-> a.shelf_snapshots[i].condition.alerts], n)

\* A store analytics whose shelves differ in alerts and in value, with
\* more alerts than shelves.
C20_Witness ==
  /\ AnalyticsResponse
  /\ \E s, t \in ResponseSnapshots :
       /\ s.condition.alerts # t.condition.alerts
       /\ s.metrics.total_value # t.metrics.total_value
  /\ response[1].body.summary.total_alerts > Len(response[1].body.shelf_snapshots)
  /\ response[1].body.summary.total_products = 120

(***************************************************************************)
(* C17: streaming failures are isolated per camera.  A step in which a     *)
(* tick of camera c fails, or the sink throws on its event, loses only     *)
(* that event: c's queue and counts of emitted and delivered events are    *)
(* unchanged, a sink failure is counted, c waits for its next tick, the    *)
(* run stays running, and no sibling camera, queue, window or total is     *)
(* changed.  In every state a loop has stopped only because the run was    *)
(* cancelled or its duration is over, and the aggregator can take any      *)
(* queued event while a loop is still running.                             *)
(***************************************************************************)
C17_Running ==
  phase = "running" =>
    \A c \in DOMAIN camPc :
      /\ camPc[c] = "stopped" => (cancelled \/ now >= DurationFrames(config))
      /\ (queue[c] # << >> /\ ~AllStopped) => ENABLED Consume(c)

C17_FailureStep ==
  \A c \in DOMAIN camPc \cap DOMAIN camPc' :
    LET tickFailure == tickFailed'[c] # tickFailed[c]
        sinkFailure == sinkFailed'[c] # sinkFailed[c]
    IN (tickFailure \/ sinkFailure) =>
         /\ tickFailure => tickFailed'[c] = tickFailed[c] + 1 /\ ~sinkFailure
         /\ sinkFailure => sinkFailed'[c] = sinkFailed[c] + 1
         /\ camPc'[c] = "wait" /\ camNext'[c] = now + 1
         /\ queue'[c] = queue[c] /\ emitted'[c] = emitted[c]
         /\ delivered'[c] = delivered[c] /\ dropped'[c] = dropped[c]
         /\ phase' = "running" /\ cancelled' = cancelled /\ now' = now
         /\ window' = window /\ totals' = totals /\ consumed' = consumed
         /\ \A d \in DOMAIN camPc \ {c} :
              /\ camPc'[d] = camPc[d] /\ camNext'[d] = camNext[d]
              /\ queue'[d] = queue[d] /\ emitted'[d] = emitted[d]
              /\ delivered'[d] = delivered[d] /\ dropped'[d] = dropped[d]
              /\ tickFailed'[d] = tickFailed[d] /\ sinkFailed'[d] = sinkFailed[d]

C17_FailuresIsolatedPerCamera == []C17_Running /\ [][C17_FailureStep]_vars

\* A run of two cameras in which the first tick of one camera failed and
\* the sink threw on the first event of the other: each went on to emit the
\* event of its next tick, and the aggregator took an event afterwards.
C17_Witness ==
  /\ phase = "running" /\ ~cancelled
  /\ \E c, d \in DOMAIN camPc :
       /\ c # d
       /\ tickFailed[c] = 1 /\ sinkFailed[c] = 0 /\ emitted[c] = 1
       /\ sinkFailed[d] = 1 /\ tickFailed[d] = 0 /\ emitted[d] = 1
       /\ consumed[c] = 1 /\ queue[d] # << >>
  /\ \A e \in {window[i] : i \in DOMAIN window} : e.timestamp > 0
  /\ window # << >>

(***************************************************************************)
(* C18: after every aggregator update, every event retained in the sliding *)
(* window has a timestamp no older than the window length before the       *)
(* current time, whichever camera's event the update took.                 *)
(***************************************************************************)
C18_WindowHoldsRecentEvents ==
  [][ totals' # totals =>
        \A i \in DOMAIN window' :
          window'[i].timestamp >= now' - WindowSeconds * config.frameRate
    ]_vars

\* After an update at a time later than the window length, the window
\* holds events of two cameras and an older event has been evicted.
C18_Witness ==
  /\ phase = "running"
  /\ now > WindowSeconds * config.frameRate
  /\ totals > Len(window)
  /\ \E i, j \in DOMAIN window : window[i].cameraId # window[j].cameraId
  /\ \A i \in DOMAIN window :
       window[i].timestamp >= now - WindowSeconds * config.frameRate

(***************************************************************************)
(* secret/page.tsx lines 193-196: the canvas the consumer page scales the  *)
(* bounding boxes by.                                                      *)
(***************************************************************************)
CanvasWidth == 1920

CanvasHeight == 1080

(***************************************************************************)
(* C21: every bounding box of every response lies inside the canvas:       *)
(* x >= 0, y >= 0, x + width <= 1920 and y + height <= 1080.  The code     *)
(* draws y up to 849 and height up to 249: a box may end at row 1098.      *)
(***************************************************************************)
C21_BoxesInsideCanvas ==
  \A d \in ResponseDetections :
    /\ d.bbox.x >= 0
    /\ d.bbox.y >= 0
    /\ d.bbox.x + d.bbox.width <= CanvasWidth
    /\ d.bbox.y + d.bbox.height <= CanvasHeight

(***************************************************************************)
(* C22: the query core is stateless.  No step writes the product catalog,  *)
(* which is the catalog of lines 4-15 in every state, and between two      *)
(* requests nothing of an earlier request or response is kept: the state   *)
(* a request arrives in is the initial state, so the responses it may get  *)
(* are the same whatever requests preceded it.                             *)
(***************************************************************************)
C22_BetweenRequests ==
  /\ catalog = PRODUCTS
  /\ request = Absent => response = Absent

C22_Stateless == []C22_BetweenRequests /\ [][catalog' = catalog]_vars

\* A shelf request answered with a snapshot naming catalog products; the
\* catalog is as it was loaded.
C22_Witness ==
  /\ SnapshotResponse
  /\ catalog = PRODUCTS
  /\ \E d \in ResponseDetections : d.product_id = PRODUCTS[Len(PRODUCTS)].id
  /\ \E d \in ResponseDetections : d.product_id = PRODUCTS[1].id

(***************************************************************************)
(* C24: Stop halts the run.  From the moment stopSimulation is invoked     *)
(* during a run until Run is pressed again, the frame counter stays at 0,  *)
(* no run advances a frame or attempts its fetch, and no detection results *)
(* are published.                                                          *)
(***************************************************************************)
C24_StopHaltsRun ==
  [][(halted /\ halted') =>
        /\ currentFrame' = 0
        /\ runs' = runs
        /\ results' \in {results, Absent}]_vars

(***************************************************************************)
(* C26: for every interleaving of Run, Stop and Reset clicks at most one   *)
(* simulation loop is in progress.                                         *)
(***************************************************************************)
C26_OneLoopInProgress == Cardinality(InProgress) <= 1

(***************************************************************************)
(* C27: every run that starts finishes.  Its loop writes the frames        *)
(* 1, 2, ..., 30 to the frame counter in this order, it then attempts      *)
(* exactly one fetch, and the step in which the fetch settles, with the    *)
(* results or with an exception, leaves isRunning false.                   *)
(***************************************************************************)
C27_RunStep(r) ==
  /\ (runs[r].pc = "sleep" /\ runs'[r] # runs[r]) =>
       /\ currentFrame' = runs[r].i
       /\ runs[r].fetches = 0
       /\ IF runs[r].i < Frames
            THEN runs'[r] = [runs[r] EXCEPT !.i = runs[r].i + 1]
            ELSE runs'[r].pc = "fetch" /\ runs'[r].fetches = 1
  /\ (runs[r].pc = "fetch" /\ runs'[r] # runs[r]) =>
       /\ runs'[r].pc = "done"
       /\ runs'[r].fetches = 1
       /\ runs'[r].outcome \in {"ok", "threw"}
       /\ isRunning' = FALSE
  /\ runs[r].pc = "done" => runs'[r] = runs[r]

C27_EveryRunFinishes ==
  /\ [][\A r \in DOMAIN runs : C27_RunStep(r)]_vars
  /\ [](\A r \in DOMAIN runs : runs[r].pc = "sleep" => runs[r].i \in 1 .. Frames)
  /\ \A r \in 1 .. MaxRuns :
       (r \in DOMAIN runs) ~> (r \in DOMAIN runs /\ runs[r].pc = "done")

C27_Witness ==
  \E r \in DOMAIN runs :
    /\ runs[r].pc = "done" /\ runs[r].outcome = "threw"
    /\ runs[r].i = Frames /\ runs[r].fetches = 1
    /\ ~isRunning

(***************************************************************************)
(* C25: the dashboard keeps at most one auto-refresh timer alive.  While   *)
(* auto-refresh is on there is exactly one timer and fetchData was called  *)
(* within the last 30 seconds, a fetch the timer triggers coming exactly   *)
(* 30 seconds after the previous call; while it is off there is no timer;  *)
(* and after every toggle of auto-refresh and every change of the time     *)
(* range the previous timer is gone, the only timer left being the new one *)
(* when auto-refresh is on.                                                *)
(***************************************************************************)
C25_Timers ==
  /\ Len(timers) <= 1
  /\ autoRefresh <=> timers # << >>
  /\ autoRefresh => sinceFetch <= RefreshSeconds
  /\ \A t \in DOMAIN timers : timers[t] = RefreshSeconds - sinceFetch

C25_ControlStep ==
  /\ (autoRefresh' # autoRefresh \/ selectedTimeRange' # selectedTimeRange) =>
       timers' = IF autoRefresh' THEN <<RefreshSeconds>> ELSE << >>
  /\ (autoRefresh' = autoRefresh /\ selectedTimeRange' = selectedTimeRange
        /\ Len(fetching') > Len(fetching)) =>
       sinceFetch = RefreshSeconds /\ autoRefresh

C25_OneRefreshTimer == []C25_Timers /\ [][C25_ControlStep]_vars

C25_Witness ==
  /\ selectedTimeRange = "7d"
  /\ autoRefresh
  /\ timers = <<0>>
  /\ sinceFetch = RefreshSeconds
  /\ analytics # Absent

(***************************************************************************)
(* C28: the socket client is a singleton.  While no disconnectSocket call  *)
(* intervenes, every getSocket and connectSocket call returns the same     *)
(* instance, which has exactly one handler for each of connect, disconnect *)
(* and error.  disconnectSocket disconnects that instance and clears the   *)
(* module-level socket, so that the next getSocket or connectSocket        *)
(* returns an instance never returned before; with no socket it changes    *)
(* nothing.                                                                *)
(***************************************************************************)
C28_Handlers ==
  socket # Absent =>
    \A e \in DOMAIN socket[1].handlers : socket[1].handlers[e] = 1

C28_CallStep ==
  /\ lastCall'.op \in {"getSocket", "connectSocket"} =>
       /\ socket' # Absent
       /\ lastCall'.ret = socket'[1].id
       /\ IF socket # Absent
            THEN socket'[1].id = socket[1].id /\ created' = created
            ELSE socket'[1].id = created + 1 /\ created' = created + 1
  /\ lastCall'.op = "disconnectSocket" =>
       /\ socket' = Absent
       /\ created' = created
       /\ lastCall'.ret = IF socket = Absent THEN 0 ELSE socket[1].id
  /\ (socket # Absent /\ socket' # Absent) => socket'[1].id = socket[1].id

C28_Singleton == []C28_Handlers /\ [][C28_CallStep]_vars

C28_Witness ==
  /\ socket # Absent
  /\ socket[1].id = 2
  /\ socket[1].state = "connected"
  /\ lastCall = [op |-> "getSocket", ret |-> 2]

(***************************************************************************)
(* C29: the token of every handshake is the most recent token passed to    *)
(* connectSocket since the last disconnectSocket, or none when none was    *)
(* passed since then (an empty string counts as no token).  The socket is  *)
(* connecting or connected only after connectSocket was called since the   *)
(* last disconnectSocket.                                                  *)
(***************************************************************************)
C29_Auth ==
  socket # Absent =>
    /\ socket[1].auth = lastToken
    /\ socket[1].handshake \in {NoHandshake, Absent} \cup {<<t>> : t \in Tokens \ {""}}
    /\ socket[1].state # "idle" => connectCalled
    /\ socket[1].handshake # NoHandshake => connectCalled

C29_HandshakeStep ==
  (socket' # Absent /\ socket'[1].state = "connected"
     /\ (socket = Absent \/ socket[1].state # "connected")) =>
    socket'[1].handshake = lastToken

C30_Promised(key) ==
  IF promised[key] = Absent THEN Null
  ELSE IF promised[key][1].ttl = Absent \/ promised[key][1].ttl[1] > 0
         THEN promised[key][1].value
         ELSE Null

C30_ExpirationHonoured == \A k \in Keys : cacheGet(k) = C30_Promised(k)

====
